---- MODULE Spec2Model ----
(***************************************************************************)
(* Model of the custom_codec crate (src/src/lib.rs): the Field / Value     *)
(* data model, encode_field and decode_field.                              *)
(*                                                                         *)
(* Bytes are integers 0..255, byte strings are sequences of bytes.  A Rust *)
(* String is modelled by its UTF-8 bytes (String::as_bytes exposes exactly *)
(* these); an i32 by an integer in -2^31..2^31-1; an f32 by its IEEE-754   *)
(* sign / exponent / mantissa.  decode_field yields Some(field), None, or  *)
(* a panic (the abort of the call), which the model keeps as a third       *)
(* outcome together with the source line that raises it.                   *)
(*                                                                         *)
(* The model checker computes with 32-bit signed integers.  A length field  *)
(* of 2^31 or more is read as 2^31-1: either is more than any buffer of    *)
(* the model holds, so the read that follows fails the same way.           *)
(***************************************************************************)
EXTENDS Integers, Sequences, FiniteSets, TLC

\* Number of Field nodes below the root of a generated well-formed Message.
MaxNodes == 3
\* Number of child records in a generated raw (possibly malformed) Message payload.
MaxRawChildren == 2

-----------------------------------------------------------------------------
(* Data model: enum Value, struct Field                                    *)

F32(sign, exp, mant) == [sign |-> sign, exp |-> exp, mant |-> mant]

F32Zero == F32(0, 0, 0)

Int32(i) ==
  [tag |-> "Int32", i |-> i, f |-> F32Zero, b |-> FALSE, bytes |-> <<>>, fields |-> <<>>]

Float32(f) ==
  [tag |-> "Float32", i |-> 0, f |-> f, b |-> FALSE, bytes |-> <<>>, fields |-> <<>>]

Bool(b) ==
  [tag |-> "Bool", i |-> 0, f |-> F32Zero, b |-> b, bytes |-> <<>>, fields |-> <<>>]

String(s) ==
  [tag |-> "String", i |-> 0, f |-> F32Zero, b |-> FALSE, bytes |-> s, fields |-> <<>>]

Bytes(bts) ==
  [tag |-> "Bytes", i |-> 0, f |-> F32Zero, b |-> FALSE, bytes |-> bts, fields |-> <<>>]

Message(fields) ==
  [tag |-> "Message", i |-> 0, f |-> F32Zero, b |-> FALSE, bytes |-> <<>>, fields |-> fields]

Field(key, value) == [key |-> key, value |-> value]

\* Placeholder for "no field" in the variables that hold a Field.
NoField == Field(<<>>, Bytes(<<>>))

-----------------------------------------------------------------------------
(* #[derive(PartialEq)]: the == of Field and Value.  f32 compares by IEEE  *)
(* rules: a NaN equals nothing, +0.0 equals -0.0.                          *)

F32IsNaN(f) == f.exp = 255 /\ f.mant # 0

F32IsZero(f) == f.exp = 0 /\ f.mant = 0

F32Eq(a, b) ==
  /\ ~F32IsNaN(a)
  /\ ~F32IsNaN(b)
  /\ (a = b \/ (F32IsZero(a) /\ F32IsZero(b)))

RECURSIVE FieldEq(_, _)
ValueEq(a, b) ==
  /\ a.tag = b.tag
  /\ CASE a.tag = "Int32" -> a.i = b.i
       [] a.tag = "Float32" -> F32Eq(a.f, b.f)
       [] a.tag = "Bool" -> a.b = b.b
       [] a.tag = "String" -> a.bytes = b.bytes
       [] a.tag = "Bytes" -> a.bytes = b.bytes
       [] OTHER -> /\ Len(a.fields) = Len(b.fields)
                   /\ \A n \in 1..Len(a.fields) : FieldEq(a.fields[n], b.fields[n])

FieldEq(a, b) == a.key = b.key /\ ValueEq(a.value, b.value)

-----------------------------------------------------------------------------
(* Integer / float <-> big-endian bytes                                    *)

\* u32::to_be_bytes of (n as u32): the four low-order bytes of n.
U32ToLe(n) ==
  <<n % 256, (n \div 256) % 256, (n \div 65536) % 256, (n \div 16777216) % 256>>

U32ToBe(n) ==
  <<(n \div 16777216) % 256, (n \div 65536) % 256, (n \div 256) % 256, n % 256>>

\* u32::from_be_bytes(buf) as usize (2^31-1 stands for the lengths above it)
U32FromBe(buf) ==
  IF buf[1] >= 128 THEN 2147483647
  ELSE buf[1] * 16777216 + buf[2] * 65536 + buf[3] * 256 + buf[4]

\* i32::to_be_bytes: two's complement (\div floors, % is non-negative).
I32ToBe(i) ==
  <<(i \div 16777216) % 256, (i \div 65536) % 256, (i \div 256) % 256, i % 256>>

\* i32::from_be_bytes
I32FromBeUnsigned(arr) ==
  (arr[1] % 128) * 16777216 + arr[2] * 65536 + arr[3] * 256 + arr[4]

I32FromBe(arr) ==
  (IF arr[1] >= 128 THEN arr[1] - 256 ELSE arr[1]) * 16777216
    + arr[2] * 65536 + arr[3] * 256 + arr[4]

\* f32::to_be_bytes: sign bit, 8 exponent bits, 23 mantissa bits.
F32ToBe(f) ==
  << f.sign * 128 + f.exp \div 2,
     (f.exp % 2) * 128 + f.mant \div 65536,
     (f.mant \div 256) % 256,
     f.mant % 256 >>

\* f32::from_be_bytes
F32FromBe(arr) ==
  F32(arr[1] \div 128,
      (arr[1] % 128) * 2 + arr[2] \div 128,
      (arr[2] % 128) * 65536 + arr[3] * 256 + arr[4])

-----------------------------------------------------------------------------
(* String::from_utf8: UTF-8 validation of a byte string                    *)

IsCont(bs, n) == n <= Len(bs) /\ bs[n] >= 128 /\ bs[n] <= 191

InRange(bs, n, lo, hi) == n <= Len(bs) /\ bs[n] >= lo /\ bs[n] <= hi

\* Width of the valid UTF-8 sequence starting at bs[n], 0 if there is none.
Utf8Width(bs, n) ==
  LET c == bs[n] IN
  IF c < 128 THEN 1
  ELSE IF c >= 194 /\ c <= 223
    THEN IF IsCont(bs, n + 1) THEN 2 ELSE 0
  ELSE IF c = 224
    THEN IF InRange(bs, n + 1, 160, 191) /\ IsCont(bs, n + 2) THEN 3 ELSE 0
  ELSE IF (c >= 225 /\ c <= 236) \/ c = 238 \/ c = 239
    THEN IF IsCont(bs, n + 1) /\ IsCont(bs, n + 2) THEN 3 ELSE 0
  ELSE IF c = 237
    THEN IF InRange(bs, n + 1, 128, 159) /\ IsCont(bs, n + 2) THEN 3 ELSE 0
  ELSE IF c = 240
    THEN IF InRange(bs, n + 1, 144, 191) /\ IsCont(bs, n + 2) /\ IsCont(bs, n + 3)
         THEN 4 ELSE 0
  ELSE IF c >= 241 /\ c <= 243
    THEN IF IsCont(bs, n + 1) /\ IsCont(bs, n + 2) /\ IsCont(bs, n + 3) THEN 4 ELSE 0
  ELSE IF c = 244
    THEN IF InRange(bs, n + 1, 128, 143) /\ IsCont(bs, n + 2) /\ IsCont(bs, n + 3)
         THEN 4 ELSE 0
  ELSE 0

RECURSIVE Utf8From(_, _)
Utf8From(bs, n) ==
  IF n > Len(bs) THEN TRUE
  ELSE LET w == Utf8Width(bs, n) IN
       IF w = 0 THEN FALSE ELSE Utf8From(bs, n + w)

\* No validation at all.
FromUtf8Unchecked(bs) == TRUE

\* String::from_utf8(bs).ok() is Some exactly when this holds.
FromUtf8(bs) == Utf8From(bs, 1)

-----------------------------------------------------------------------------
(* encode_field                                                            *)

TypeCode(value) ==
  CASE value.tag = "Int32" -> 1
    [] value.tag = "Float32" -> 2
    [] value.tag = "Bool" -> 3
    [] value.tag = "String" -> 4
    [] value.tag = "Bytes" -> 5
    [] value.tag = "Message" -> 6

\* *b as u8
BoolAsU8(b) == IF b THEN 1 ELSE 0

RECURSIVE EncodeField(_), EncodeInner(_)
\* for f in fields { inner.extend_from_slice(&encode_field(f)); }
EncodeInner(fields) ==
  IF fields = <<>> THEN <<>>
  ELSE EncodeField(Head(fields)) \o EncodeInner(Tail(fields))

EncodeField(field) ==
  LET type_code == TypeCode(field.value)
      key_bytes == field.key
      head == <<type_code>> \o U32ToBe(Len(key_bytes)) \o key_bytes
      v == field.value
  IN CASE v.tag = "Int32" -> head \o U32ToBe(4) \o I32ToBe(v.i)
       [] v.tag = "Float32" -> head \o U32ToBe(4) \o F32ToBe(v.f)
       [] v.tag = "Bool" -> head \o U32ToBe(1) \o <<BoolAsU8(v.b)>>
       [] v.tag = "String" -> head \o U32ToBe(Len(v.bytes)) \o v.bytes
       [] v.tag = "Bytes" -> head \o U32ToBe(Len(v.bytes)) \o v.bytes
       [] v.tag = "Message" ->
            LET inner == EncodeInner(v.fields)
            IN head \o U32ToBe(Len(inner)) \o inner

-----------------------------------------------------------------------------
(* decode_field                                                            *)

\* Option<Field>, plus the panic of the call as a third outcome.
Some(f) == [kind |-> "Some", field |-> f, line |-> 0]

None == [kind |-> "None", field |-> NoField, line |-> 0]

\* The call aborts at the given source line.
Panic(line) == [kind |-> "Panic", field |-> NoField, line |-> line]

\* A bounds check that is off by one: the missing last byte reads as 0.
ReadExactOffByOne(data, pos, n) ==
  IF n <= Len(data) - pos + 1
  THEN [ok |-> TRUE, buf |-> SubSeq(data \o <<0>>, pos + 1, pos + n), pos |-> pos + n]
  ELSE [ok |-> FALSE, buf |-> <<>>, pos |-> pos]

\* cur.read_exact(&mut buf) with buf of n bytes and the cursor at pos:
\* Ok and n bytes when they are there, Err otherwise.
ReadExact(data, pos, n) ==
  IF n <= Len(data) - pos
  THEN [ok |-> TRUE, buf |-> SubSeq(data, pos + 1, pos + n), pos |-> pos + n]
  ELSE [ok |-> FALSE, buf |-> <<>>, pos |-> pos]

HeaderErr ==
  [ok |-> FALSE, type_code |-> 0, key |-> <<>>, key_len |-> 0, val_len |-> 0,
   val_bytes |-> <<>>]

\* The value read takes all the bytes that are left, not val_len of them.
ReadHeaderToEnd(data) ==
  LET r1 == ReadExact(data, 0, 1) IN
  IF ~r1.ok THEN HeaderErr ELSE
  LET r2 == ReadExact(data, r1.pos, 4) IN
  IF ~r2.ok THEN HeaderErr ELSE
  LET key_len == U32FromBe(r2.buf)
      r3 == ReadExact(data, r2.pos, key_len) IN
  IF ~r3.ok THEN HeaderErr ELSE
  IF ~FromUtf8(r3.buf) THEN HeaderErr ELSE
  LET r4 == ReadExact(data, r3.pos, 4) IN
  IF ~r4.ok THEN HeaderErr ELSE
  LET val_len == U32FromBe(r4.buf)
      r5 == ReadExact(data, r4.pos, val_len) IN
  IF ~r5.ok THEN HeaderErr ELSE
  [ok |-> TRUE, type_code |-> r1.buf[1], key |-> r3.buf, key_len |-> key_len,
   val_len |-> val_len, val_bytes |-> SubSeq(data, r4.pos + 1, Len(data))]

\* Lines 78-98: the reads of type_code, key_len, key, val_len and val_bytes,
\* each followed by `.ok()?`.
ReadHeader(data) ==
  LET r1 == ReadExact(data, 0, 1) IN
  IF ~r1.ok THEN HeaderErr ELSE
  LET r2 == ReadExact(data, r1.pos, 4) IN
  IF ~r2.ok THEN HeaderErr ELSE
  LET key_len == U32FromBe(r2.buf)
      r3 == ReadExact(data, r2.pos, key_len) IN
  IF ~r3.ok THEN HeaderErr ELSE
  IF ~FromUtf8(r3.buf) THEN HeaderErr ELSE
  LET r4 == ReadExact(data, r3.pos, 4) IN
  IF ~r4.ok THEN HeaderErr ELSE
  LET val_len == U32FromBe(r4.buf)
      r5 == ReadExact(data, r4.pos, val_len) IN
  IF ~r5.ok THEN HeaderErr ELSE
  [ok |-> TRUE, type_code |-> r1.buf[1], key |-> r3.buf, key_len |-> key_len,
   val_len |-> val_len, val_bytes |-> r5.buf]

\* The match arms of every type code but 6, with unknown codes read as Bytes.
DecodeScalarLax(type_code, key, val_bytes) ==
  CASE type_code = 1 ->
         IF Len(val_bytes) # 4 THEN Panic(103)
         ELSE Some(Field(key, Int32(I32FromBe(val_bytes))))
    [] type_code = 2 ->
         IF Len(val_bytes) # 4 THEN Panic(108)
         ELSE Some(Field(key, Float32(F32FromBe(val_bytes))))
    [] type_code = 3 ->
         IF Len(val_bytes) = 0 THEN Panic(111)
         ELSE Some(Field(key, Bool(val_bytes[1] # 0)))
    [] type_code = 4 ->
         IF FromUtf8(val_bytes) THEN Some(Field(key, String(val_bytes))) ELSE None
    [] OTHER -> Some(Field(key, Bytes(val_bytes)))

\* The match arms of every type code but 6 (lines 100-113 and 129).
\* copy_from_slice panics unless the slice has the 4 bytes of arr;
\* val_bytes[0] panics on an empty payload.
DecodeScalar(type_code, key, val_bytes) ==
  CASE type_code = 1 ->
         IF Len(val_bytes) # 4 THEN Panic(103)
         ELSE Some(Field(key, Int32(I32FromBe(val_bytes))))
    [] type_code = 2 ->
         IF Len(val_bytes) # 4 THEN Panic(108)
         ELSE Some(Field(key, Float32(F32FromBe(val_bytes))))
    [] type_code = 3 ->
         IF Len(val_bytes) = 0 THEN Panic(111)
         ELSE Some(Field(key, Bool(val_bytes[1] # 0)))
    [] type_code = 4 ->
         IF FromUtf8(val_bytes) THEN Some(Field(key, String(val_bytes))) ELSE None
    [] type_code = 5 -> Some(Field(key, Bytes(val_bytes)))
    [] OTHER -> None

\* &slice[take..]
SliceFrom(slice, take) == SubSeq(slice, take + 1, Len(slice))

RECURSIVE DecodeField(_), DecodeLoop(_, _)

\* One iteration of the while loop of the Message arm (lines 118-125) on a
\* non-empty slice, r being decode_field(slice): ctl says whether the loop
\* goes on, breaks or panics.
LoopIter(slice, inner, r) ==
  IF r.kind = "Some"
  THEN LET encoded == EncodeField(r.field)
           take == Len(encoded)
       IN IF take > Len(slice)
          THEN [ctl |-> "panic", line |-> 122, inner |-> Append(inner, r.field),
                slice |-> slice, take |-> take]
          ELSE [ctl |-> "continue", line |-> 0, inner |-> Append(inner, r.field),
                slice |-> SliceFrom(slice, take), take |-> take]
  ELSE IF r.kind = "None"
  THEN [ctl |-> "break", line |-> 0, inner |-> inner, slice |-> slice, take |-> 0]
  ELSE [ctl |-> "panic", line |-> r.line, inner |-> inner, slice |-> slice, take |-> 0]

\* The while loop of lines 117-126, run to its end.
DecodeLoop(slice, inner) ==
  IF slice = <<>> THEN [ctl |-> "break", line |-> 0, inner |-> inner]
  ELSE LET it == LoopIter(slice, inner, DecodeField(slice)) IN
       IF it.ctl = "continue" THEN DecodeLoop(it.slice, it.inner)
       ELSE [ctl |-> it.ctl, line |-> it.line, inner |-> it.inner]

DecodeField(data) ==
  LET h == ReadHeader(data) IN
  IF ~h.ok THEN None
  ELSE IF h.type_code = 6
  THEN LET l == DecodeLoop(h.val_bytes, <<>>) IN
       IF l.ctl = "panic" THEN Panic(l.line)
       ELSE Some(Field(h.key, Message(l.inner)))
  ELSE DecodeScalar(h.type_code, h.key, h.val_bytes)

-----------------------------------------------------------------------------
(* Inputs: well-formed fields for the encoder, raw byte strings for the    *)
(* decoder.                                                                *)

Keys == {<<>>, <<120>>, <<195, 169>>}

MessageKeys == {<<>>, <<120>>}

InnerKey == <<109>>

ScalarValues ==
  { Int32(0), Int32(42), Int32(-1), Int32(2147483647), Int32(-2147483647 - 1),
    Float32(F32(0, 127, 0)), Float32(F32(1, 0, 0)), Float32(F32(0, 255, 4194304)),
    Float32(F32(1, 254, 8388607)),
    Bool(TRUE), Bool(FALSE),
    String(<<>>), String(<<82, 117, 115, 116>>), String(<<195, 169>>),
    Bytes(<<>>), Bytes(<<255>>), Bytes(<<0, 1>>) }

\* The fields of the crate's tests and of the two scenarios of the design.
AgeField == Field(<<97, 103, 101>>, Int32(42))

NameField == Field(<<110, 97, 109, 101>>, String(<<82, 117, 115, 116>>))

InnerScalars ==
  { Field(<<120>>, Bool(TRUE)),
    Field(<<>>, Int32(-1)),
    Field(<<102>>, Float32(F32(0, 255, 4194304))),
    Field(<<195, 169>>, String(<<195, 169>>)) }

\* Trees(n): the nested fields of exactly n Field nodes;
\* Forests(m): the child lists of m Field nodes in all.
RECURSIVE Trees(_), Forests(_)
Trees(n) ==
  IF n = 1 THEN InnerScalars \cup {Field(InnerKey, Message(<<>>))}
  ELSE {Field(InnerKey, Message(c)) : c \in Forests(n - 1)}

Forests(m) ==
  IF m = 0 THEN {<<>>}
  ELSE UNION {{<<t>> \o r : t \in Trees(j), r \in Forests(m - j)} : j \in 1..m}

Fields ==
  {Field(k, v) : k \in Keys, v \in ScalarValues}
    \cup {AgeField, NameField}
    \cup {Field(k, Message(c)) : k \in MessageKeys,
                                 c \in UNION {Forests(m) : m \in 0..MaxNodes}}

\* Bytes appended after a record.
Tails ==
  { <<0>>, <<255>>, <<9, 9>>,
    <<3, 0, 0, 0, 1, 120, 0, 0, 0, 1, 1>> }

\* A length field as a caller writes it.
RawLen(n) ==
  <<(n \div 16777216) % 256, (n \div 65536) % 256, (n \div 256) % 256, n % 256>>

\* The bytes of a record with the given type code, declared key length, key
\* bytes, declared value length and payload bytes.
RawBytes(r) == <<r.tc>> \o RawLen(r.klen) \o r.key \o RawLen(r.vlen) \o r.payload

Raw(tc, key, klen, vlen, payload) ==
  [tc |-> tc, key |-> key, klen |-> klen, vlen |-> vlen, payload |-> payload]

NoRaw == Raw(0, <<>>, 0, 0, <<>>)

RawTypeCodes == {0, 1, 2, 3, 4, 5, 6, 7, 9, 255}

RawKeys == {<<>>, <<120>>, <<255>>, <<195>>, <<237, 160, 128>>}

RawPayloads ==
  { <<>>, <<0>>, <<1>>, <<2, 7>>, <<255>>, <<0, 0, 0, 42>>, <<255, 255, 255, 214>>,
    <<0, 0, 0, 0, 1>>, <<195, 169>>, <<195>>, <<192, 128>> }

RawScalars ==
  { Raw(tc, key, Len(key) + d, vlen, payload) :
      tc \in RawTypeCodes, key \in RawKeys, d \in {0, 1},
      vlen \in {0, 1, 2, 4, 5}, payload \in RawPayloads }

\* Child records of a raw Message payload, well-formed and not.
RawChildren ==
  { RawBytes(Raw(3, <<120>>, 1, 1, <<1>>)),
    RawBytes(Raw(3, <<>>, 0, 2, <<1, 0>>)),
    RawBytes(Raw(3, <<>>, 0, 0, <<>>)),
    RawBytes(Raw(1, <<>>, 0, 4, <<255, 255, 255, 255>>)),
    RawBytes(Raw(1, <<>>, 0, 0, <<>>)),
    RawBytes(Raw(4, <<>>, 0, 1, <<255>>)),
    RawBytes(Raw(5, <<255>>, 1, 0, <<>>)),
    RawBytes(Raw(9, <<>>, 0, 0, <<>>)),
    RawBytes(Raw(6, <<>>, 0, 3, <<0, 0, 0>>)),
    RawBytes(Raw(6, <<>>, 0, 10, RawBytes(Raw(3, <<>>, 0, 1, <<0>>)))) }

\* Bytes left after the last child record.
RawTails == {<<>>, <<0>>, <<5, 0, 0, 0, 0, 0, 0, 0>>}

RECURSIVE RawChildLists(_)
RawChildLists(n) ==
  IF n = 0 THEN {<<>>}
  ELSE RawChildLists(n - 1)
         \cup {c \o r : c \in RawChildren, r \in RawChildLists(n - 1)}

RawMessages ==
  { Raw(6, key, Len(key), Len(c \o t) + d, c \o t) :
      key \in {<<>>, <<255>>}, c \in RawChildLists(MaxRawChildren),
      t \in RawTails, d \in {0, 1} }

\* Records that declare far more bytes than there are.
RawOversized ==
  { Raw(tc, <<120>>, klen, vlen, <<0, 0, 0, 42>>) :
      tc \in RawTypeCodes, klen \in {1, 2147483647}, vlen \in {4, 16777216, 2147483647} }

RawInputs == RawScalars \cup RawMessages \cup RawOversized

-----------------------------------------------------------------------------
(* The state machine: a caller encodes a field and hands the bytes, a      *)
(* prefix of them or the bytes with a tail to decode_field, or hands it    *)
(* raw bytes; decode_field runs, the loop of the Message arm of the        *)
(* outermost call one iteration at a time.                                 *)

VARIABLES
  pc,      \* "start", "encoded", "input", "loop", "done"
  origin,  \* how data was made: "none", "exact", "prefix", "extended", "raw"
  field,   \* the Field given to encode_field
  raw,     \* the parts of a raw input
  enc,     \* encode_field(field)
  data,    \* the argument of decode_field
  hdr,     \* what the outermost decode_field call read (lines 78-98)
  slice,   \* the loop's remaining slice
  inner,   \* the loop's inner Vec
  take,    \* take of the last iteration that decoded a child
  rem,     \* length of the slice at the start of that iteration
  result   \* the outcome of the outermost decode_field call

vars == <<pc, origin, field, raw, enc, data, hdr, slice, inner, take, rem, result>>

Init ==
  /\ \/ /\ pc = "start"
        /\ origin = "none"
        /\ field \in Fields
        /\ raw = NoRaw
        /\ data = <<>>
     \/ /\ pc = "input"
        /\ origin = "raw"
        /\ field = NoField
        /\ raw \in RawInputs
        /\ data = RawBytes(raw)
  /\ enc = <<>>
  /\ hdr = HeaderErr
  /\ slice = <<>>
  /\ inner = <<>>
  /\ take = 0
  /\ rem = 0
  /\ result = None

\* encode_field(&field)
Encode ==
  /\ pc = "start"
  /\ enc' = EncodeField(field)
  /\ pc' = "encoded"
  /\ UNCHANGED <<origin, field, raw, data, hdr, slice, inner, take, rem, result>>

\* The caller passes the encoded bytes as they are.
PassExact ==
  /\ pc = "encoded"
  /\ data' = enc
  /\ origin' = "exact"
  /\ pc' = "input"
  /\ UNCHANGED <<field, raw, enc, hdr, slice, inner, take, rem, result>>

\* The caller passes the first p bytes, p < len.
PassPrefix ==
  /\ pc = "encoded"
  /\ \E p \in 0..(Len(enc) - 1) : data' = SubSeq(enc, 1, p)
  /\ origin' = "prefix"
  /\ pc' = "input"
  /\ UNCHANGED <<field, raw, enc, hdr, slice, inner, take, rem, result>>

\* The caller passes the encoded bytes followed by other bytes.
PassExtended ==
  /\ pc = "encoded"
  /\ \E t \in Tails : data' = enc \o t
  /\ origin' = "extended"
  /\ pc' = "input"
  /\ UNCHANGED <<field, raw, enc, hdr, slice, inner, take, rem, result>>

\* decode_field(data) up to the match: the reads, then the arm of the type
\* code; the Message arm enters the loop.
DecodeBegin ==
  /\ pc = "input"
  /\ LET h == ReadHeader(data) IN
     /\ hdr' = h
     /\ IF h.ok /\ h.type_code = 6
        THEN /\ pc' = "loop"
             /\ slice' = h.val_bytes
             /\ inner' = <<>>
             /\ UNCHANGED result
        ELSE /\ pc' = "done"
             /\ result' = IF h.ok THEN DecodeScalar(h.type_code, h.key, h.val_bytes)
                          ELSE None
             /\ UNCHANGED <<slice, inner>>
  /\ UNCHANGED <<origin, field, raw, enc, data, take, rem>>

\* One iteration of the while loop on a non-empty slice.
LoopStep ==
  /\ pc = "loop"
  /\ slice # <<>>
  /\ LET it == LoopIter(slice, inner, DecodeField(slice)) IN
     /\ inner' = it.inner
     /\ slice' = it.slice
     /\ IF it.take > 0
        THEN take' = it.take /\ rem' = Len(slice)
        ELSE UNCHANGED <<take, rem>>
     /\ IF it.ctl = "continue"
        THEN UNCHANGED <<pc, result>>
        ELSE /\ pc' = "done"
             /\ result' = IF it.ctl = "panic" THEN Panic(it.line)
                          ELSE Some(Field(hdr.key, Message(it.inner)))
  /\ UNCHANGED <<origin, field, raw, enc, data, hdr>>

\* The loop ends on an empty slice; Some(Field { key, value }).
LoopEnd ==
  /\ pc = "loop"
  /\ slice = <<>>
  /\ result' = Some(Field(hdr.key, Message(inner)))
  /\ pc' = "done"
  /\ UNCHANGED <<origin, field, raw, enc, data, hdr, slice, inner, take, rem>>

Next ==
  \/ Encode
  \/ PassExact
  \/ PassPrefix
  \/ PassExtended
  \/ DecodeBegin
  \/ LoopStep
  \/ LoopEnd

Spec == Init /\ [][Next]_vars

-----------------------------------------------------------------------------
(* Properties                                                              *)

\* The loop run one iteration at a time gives what the call gives.
StepwiseAgrees == pc = "done" => result = DecodeField(data)

RECURSIVE HasNaN(_)
HasNaN(f) ==
  \/ f.value.tag = "Float32" /\ F32IsNaN(f.value.f)
  \/ \E n \in 1..Len(f.value.fields) : HasNaN(f.value.fields[n])

\* C1 as stated: decode_field(encode_field(f)) == Some(f), with the == of
\* the derived PartialEq, for every well-formed field f.
C1_RoundTripPartialEq ==
  (pc = "done" /\ origin = "exact")
    => (result.kind = "Some" /\ FieldEq(result.field, field))

\* C1 amended: decode_field(encode_field(f)) is Some(g) where g has the keys,
\* variants, payload bits and children of f, in the same order and number;
\* g == f holds unless f contains a Float32 NaN.
C1_RoundTrip ==
  (pc = "done" /\ origin = "exact")
    => /\ result = Some(field)
       /\ (~HasNaN(field) => FieldEq(result.field, field))

C1_Witness ==
  /\ pc = "done"
  /\ origin = "exact"
  /\ field.value.tag = "Message"
  /\ Len(field.value.fields) = 2
  /\ \E n \in 1..2 : /\ field.value.fields[n].value.tag = "Message"
                     /\ field.value.fields[n].value.fields # <<>>
  /\ result = Some(field)

\* C2: decode_field on a proper prefix of encode_field(f) returns None; it
\* neither returns a Field nor panics.
C2_TruncationFailsClosed ==
  (pc = "done" /\ origin = "prefix") => result = None

\* The cut is inside the last child record of a Message.
C2_Witness ==
  /\ pc = "done"
  /\ origin = "prefix"
  /\ field.value.tag = "Message"
  /\ field.value.fields # <<>>
  /\ Len(data) = Len(enc) - 1
  /\ result = None

\* C3: a record whose reads succeed and whose type code is 1 or 2 with
\* val_len # 4, or 3 with val_len # 1, makes decode_field return None.
C3_MalformedFixedWidthRejected ==
  ( /\ pc = "done"
    /\ hdr.ok
    /\ \/ hdr.type_code \in {1, 2} /\ hdr.val_len # 4
       \/ hdr.type_code = 3 /\ hdr.val_len # 1 )
    => result = None

\* C4: when decode_field returns a field g, the record it parsed,
\* 9 + key_len + val_len bytes, is as long as encode_field(g).
C4_ExactConsumption ==
  (pc = "done" /\ result.kind = "Some")
    => 9 + hdr.key_len + hdr.val_len = Len(EncodeField(result.field))

\* C5: decode_field on encode_field(f) followed by any bytes returns Some(f),
\* the field that was encoded, as without the bytes.
C5_SelfDelimiting ==
  (pc = "done" /\ origin = "extended")
    => (result = Some(field) /\ result = DecodeField(enc))

\* The bytes that follow are themselves a valid record.
C5_Witness ==
  /\ pc = "done"
  /\ origin = "extended"
  /\ Len(data) = Len(enc) + 11
  /\ field.value.tag = "Message"
  /\ field.value.fields # <<>>
  /\ result = Some(field)

\* C6: a Message record with its (valid) key and val_len payload bytes
\* present decodes to Some(Message) whatever its children are; a child that
\* fails to decode ends the list and nothing else.
C6_ChildFailureTruncates ==
  ( /\ pc = "done"
    /\ origin = "raw"
    /\ raw.tc = 6
    /\ raw.key = <<>>
    /\ raw.klen = 0
    /\ raw.vlen = Len(raw.payload) )
    => /\ result.kind = "Some"
       /\ result.field.value.tag = "Message"
       /\ result.field.value.fields = inner

InvalidUtf8 == {<<255>>, <<195>>, <<237, 160, 128>>, <<192, 128>>}

ValidUtf8 == {<<>>, <<120>>, <<195, 169>>}

\* C7: a record whose key is not valid UTF-8 decodes to None whatever its
\* type code; a type 4 record whose payload is not valid UTF-8 decodes to
\* None; a type 5 record decodes to Bytes of the payload as it is.
C7_Utf8Validation ==
  (pc = "done" /\ origin = "raw")
    => /\ raw.key \in InvalidUtf8 => result = None
       /\ ( /\ raw.tc = 4
            /\ raw.klen = Len(raw.key)
            /\ raw.vlen <= Len(raw.payload)
            /\ SubSeq(raw.payload, 1, raw.vlen) \in InvalidUtf8 )
            => result = None
       /\ ( /\ raw.tc = 5
            /\ raw.klen = Len(raw.key)
            /\ raw.key \in ValidUtf8
            /\ raw.vlen <= Len(raw.payload) )
            => result = Some(Field(raw.key, Bytes(SubSeq(raw.payload, 1, raw.vlen))))

C7_Witness ==
  /\ pc = "done"
  /\ origin = "raw"
  /\ raw.tc = 4
  /\ raw.key = <<120>>
  /\ raw.klen = 1
  /\ raw.vlen = 1
  /\ raw.payload = <<255>>
  /\ result = None

\* C8: an input whose first byte is not in 1..6 decodes to None, whatever
\* follows the byte.
C8_UnknownTypeCode ==
  (pc = "done" /\ data # <<>> /\ data[1] \notin 1..6) => result = None

\* Type code 9 in an otherwise well-formed record.
C8_Witness ==
  /\ pc = "done"
  /\ origin = "raw"
  /\ raw.tc = 9
  /\ raw.key = <<120>>
  /\ raw.klen = 1
  /\ raw.vlen = 4
  /\ raw.payload = <<0, 0, 0, 42>>
  /\ result = None

\* The concatenation of a sequence of byte strings.
RECURSIVE Flatten(_)
Flatten(seqs) == IF seqs = <<>> THEN <<>> ELSE Head(seqs) \o Flatten(Tail(seqs))

\* The number that four bytes b, c, d, e write in base 256.
Base256(b, c, d, e) == ((b * 256 + c) * 256 + d) * 256 + e

IsByte(x) == x \in 0..255

\* The payload of a value as the wire format lays it out.
PayloadOk(v, payload) ==
  CASE v.tag = "Int32" ->
         /\ Len(payload) = 4
         /\ \A n \in 1..4 : IsByte(payload[n])
         /\ Base256(payload[1] - (IF v.i < 0 THEN 256 ELSE 0),
                    payload[2], payload[3], payload[4]) = v.i
    [] v.tag = "Float32" ->
         /\ Len(payload) = 4
         /\ \A n \in 1..4 : IsByte(payload[n])
         /\ payload[1] = 128 * v.f.sign + v.f.exp \div 2
         /\ Base256(0, payload[2], payload[3], payload[4])
              = 8388608 * (v.f.exp % 2) + v.f.mant
    [] v.tag = "Bool" -> payload = IF v.b THEN <<1>> ELSE <<0>>
    [] v.tag = "String" -> payload = v.bytes
    [] v.tag = "Bytes" -> payload = v.bytes
    [] v.tag = "Message" ->
         payload = Flatten([n \in 1..Len(v.fields) |-> EncodeField(v.fields[n])])

TagCode(tag) ==
  CASE tag = "Int32" -> 1 [] tag = "Float32" -> 2 [] tag = "Bool" -> 3
    [] tag = "String" -> 4 [] tag = "Bytes" -> 5 [] tag = "Message" -> 6

\* C9: encode_field(f) is the type code, the big-endian length of the key,
\* the key, the big-endian length of the payload and the payload; the
\* payload of a Message is its children's records in list order; the whole
\* is 9 + key_len + val_len bytes.
C9_WireLayout ==
  (pc \in {"encoded", "input"} /\ origin # "raw")
    => LET k == Len(field.key)
           val_len == Base256(enc[k + 6], enc[k + 7], enc[k + 8], enc[k + 9])
           payload == SubSeq(enc, k + 10, Len(enc))
       IN /\ Len(enc) >= 9 + k
          /\ enc[1] = TagCode(field.value.tag)
          /\ Base256(enc[2], enc[3], enc[4], enc[5]) = k
          /\ SubSeq(enc, 6, 5 + k) = field.key
          /\ val_len = Len(payload)
          /\ Len(enc) = 9 + k + val_len
          /\ PayloadOk(field.value, payload)
          /\ field = AgeField
               => enc = <<1, 0, 0, 0, 3, 97, 103, 101, 0, 0, 0, 4, 0, 0, 0, 42>>

C9_Witness ==
  /\ pc = "encoded"
  /\ field.value.tag = "Message"
  /\ Len(field.value.fields) = 2
  /\ Len(enc) = 9 + Len(field.key) + Len(EncodeField(field.value.fields[1]))
                  + Len(EncodeField(field.value.fields[2]))

\* C10: in an iteration of the loop that decodes a child, take is at least 9
\* and at most the length of the slice, so the slice shrinks and
\* &slice[take..] never panics, in the outermost loop and in nested ones.
C10_BoundedAdvance ==
  /\ take > 0 => (9 <= take /\ take <= rem)
  /\ result.kind = "Panic" => result.line # 122

\* Two children decoded from a raw payload, the record of the last one
\* longer than its re-encoding.
C10_Witness ==
  /\ origin = "raw"
  /\ Len(inner) = 2
  /\ take >= 9
  /\ take < rem
  /\ slice # <<>>

====
